---------------------------- MODULE Spec2Model ----------------------------
(***************************************************************************)
(* Model of the ESP32 anchor firmware of the indoor positioning system:    *)
(* the polling loop, the WiFi scan, the per-device Kalman filter, the      *)
(* distance estimator, the device registry and the uplink report.          *)
(*                                                                         *)
(* Two firmware variants are modelled, selected by the variable `variant`: *)
(*   "vector" - anchors/anchor2/anchor2.ino: std::vector<DeviceInfo>,      *)
(*              std::map<String,KalmanFilter>, per-channel calibration;    *)
(*   "array"  - src/unnamed/part_000 (and anchors/anchor2.ino):            *)
(*              DeviceInfo devices[10], no filter, no channel.             *)
(*                                                                         *)
(* float values are fixed-point integers with Scale units per 1.0:         *)
(* smoothed RSSI in 1/1000 dBm, distances in millimetres.                  *)
(***************************************************************************)
EXTENDS Integers, Sequences, FiniteSets, TLC

VARIABLES
    variant,        \* which firmware build runs
    clock,          \* millis()
    pc,             \* position inside loop()
    currentTime,    \* loop() local: millis() read at the top of the iteration
    lastScan,       \* loop() static
    lastCleanup,    \* loop() static
    devices,        \* the registry (array of maxDevices slots / vector)
    kalmanFilters,  \* std::map<String, KalmanFilter>
    scanResults,    \* results of WiFi.scanNetworks not yet processed
    newDevices,     \* scanForDevices local counter
    updatedDevices, \* scanForDevices local counter
    removedCount,   \* cleanupOldDevices local counter (of the last sweep)
    removedLog,     \* identifiers printed as "Device removed (timeout)"
    report,         \* outcome of the last sendDataToServer call
    obsLeft,        \* scan results the environment may still deliver
    est,            \* calculateDistance on its own: arguments and return values
    kf,             \* one KalmanFilter on its own: its fields and its last input
    app             \* the dashboard: IndoorPositioningApp's fields and its page

vars == <<variant, clock, pc, currentTime, lastScan, lastCleanup, devices,
          kalmanFilters, scanResults, newDevices, updatedDevices,
          removedCount, removedLog, report, obsLeft, est, kf, app>>

\* what calculateDistance and one KalmanFilter were given and returned when
\* they are exercised on their own, and the dashboard, which runs in a
\* browser and shares no state with the firmware
benchVars == <<est, kf, app>>

\* the state of the firmware proper
firmwareVars == <<variant, clock, currentTime, lastScan, lastCleanup, devices,
                  kalmanFilters, scanResults, newDevices, updatedDevices,
                  removedCount, removedLog, report, obsLeft>>

---------------------------------------------------------------------------
(* Bounds of the model *)

BootMs == 2000       \* millis() when loop() first runs
ScanMs == 4900       \* time WiFi.scanNetworks blocks
MaxClock == 30000    \* no loop iteration starts after this time
MaxScan == 2         \* results per scan
MaxObs == 2          \* results delivered in one run
MaxClockLive == 50000 \* as MaxClock, for the specification with fairness
MaxObsLive == 2      \* as MaxObs, for the specification with fairness
CrowdSize == 11      \* identifiers present in the crowded environment

(* Program constants *)

maxDevices == 10
T_scan == 2000
T_cleanup == 15000
T_stale == 15000
DelayMs == 100
HttpTimeoutMs == 5000
Scale == 1000

---------------------------------------------------------------------------
(* Small helpers *)

RECURSIVE SeqsUpTo(_, _)
SeqsUpTo(S, n) ==
    IF n = 0 THEN {<<>>}
    ELSE LET shorter == SeqsUpTo(S, n - 1)
         IN  shorter \cup {Append(s, x) : s \in {t \in shorter : Len(t) = n - 1}, x \in S}

\* unsigned subtraction of two millis() readings. A reading is an unsigned
\* 32-bit value and is held as the integer with the same 32 bits in two's
\* complement: 2^32 - 1 is -1, and the counter wraps in the step from -1 to
\* 0. The difference of two readings modulo 2^32 is then their difference,
\* read as unsigned: a negative difference is a value of 2^31 or more, which
\* is shown as the largest value below 2^31 (every period it is compared
\* with is far smaller).
Elapsed(now, then) == IF now - then < 0 THEN 2147483647 ELSE now - then

---------------------------------------------------------------------------
(* KalmanFilter (vector variant) *)

KalmanQ == 100      \* Q = 0.1
KalmanR == 2000     \* R = 2.0

\* a freshly constructed KalmanFilter: P = 1.0, X = 0.0
NewKalmanFilter == [X |-> 0, P |-> Scale]

\* mutant of KalmanUpdate: the gain fraction upside down
KalmanUpdateGainInverted(f, measurement) ==
    LET P1 == f.P + KalmanQ
        K  == ((P1 + KalmanR) * Scale) \div P1
    IN  [X |-> f.X + (K * (measurement - f.X)) \div Scale,
         P |-> ((Scale - K) * P1) \div Scale]

\* KalmanFilter::update(measurement), measurement in fixed point
KalmanUpdate(f, measurement) ==
    LET P1 == f.P + KalmanQ
        K  == (P1 * Scale) \div (P1 + KalmanR)
    IN  [X |-> f.X + (K * (measurement - f.X)) \div Scale,
         P |-> ((Scale - K) * P1) \div Scale]

\* no KalmanFilter is exercised on its own
NoFilterRun == [f |-> NewKalmanFilter, prev |-> NewKalmanFilter, m |-> 0, run |-> 0, n |-> 0]

---------------------------------------------------------------------------
(* Distance estimator *)

\* channelCalibrations[]: n10 is 10*n, A in dBm
channelCalibrations ==
    << [channel |-> 1,  n10 |-> 22, A |-> -45],
       [channel |-> 6,  n10 |-> 23, A |-> -45],
       [channel |-> 11, n10 |-> 24, A |-> -45],
       [channel |-> 36, n10 |-> 21, A |-> -40],
       [channel |-> 40, n10 |-> 21, A |-> -40],
       [channel |-> 44, n10 |-> 21, A |-> -40],
       [channel |-> 48, n10 |-> 21, A |-> -40] >>

DefaultCalibration == [channel |-> 0, n10 |-> 25, A |-> -45]

\* the for-loop of calculateDistance: first entry whose channel matches
\* mutant of Calibration: a channel that is not listed takes the entry of
\* the nearest listed channel below it
CalibrationNearest(channel) ==
    LET hits == {i \in DOMAIN channelCalibrations :
                    channelCalibrations[i].channel <= channel}
    IN  IF hits = {} THEN DefaultCalibration
        ELSE channelCalibrations[CHOOSE i \in hits : \A j \in hits : j <= i]

Calibration(channel) ==
    LET hits == {i \in DOMAIN channelCalibrations :
                    channelCalibrations[i].channel = channel}
    IN  IF hits = {} THEN DefaultCalibration
        ELSE channelCalibrations[CHOOSE i \in hits : \A j \in hits : i <= j]

\* 10^(d/10), 10^(d/100), 10^(d/1000) for a digit d, in units of 1/Scale
Pow10Tenths == <<1000, 1258, 1584, 1995, 2511, 3162, 3981, 5011, 6309, 7943>>
Pow10Hundredths == <<1000, 1023, 1047, 1071, 1096, 1122, 1148, 1174, 1202, 1230>>
Pow10Thousandths == <<1000, 1002, 1004, 1006, 1009, 1011, 1013, 1016, 1018, 1020>>

RECURSIVE Pow10Int(_)
Pow10Int(k) == IF k = 0 THEN 1 ELSE 10 * Pow10Int(k - 1)

\* pow(10, e) for e >= 0 given in units of 1/Scale; result in units of 1/Scale
Pow10(e) ==
    LET whole == e \div Scale
        frac  == e % Scale
        t1 == Pow10Tenths[(frac \div 100) + 1]
        t2 == Pow10Hundredths[((frac \div 10) % 10) + 1]
        t3 == Pow10Thousandths[(frac % 10) + 1]
    IN  ((((t1 * t2) \div Scale) * t3) \div Scale) * Pow10Int(whole)

minDist == 100          \* 0.1 m
maxDistVector == 50000  \* 50.0 m
maxDistArray == 20000   \* 20.0 m

\* mutant of Clamp: the upper limit is left out
ClampLowOnly(d, hi) == IF d < minDist THEN minDist ELSE d

Clamp(d, hi) == IF d > hi THEN hi ELSE IF d < minDist THEN minDist ELSE d

\* mutant of calculateDistance: at the reference strength it returns 1 m
calculateDistanceOneMetre(rssi, channel) ==
    LET cal == Calibration(channel)
        d0  == Pow10((cal.A * Scale - rssi) \div cal.n10)
        d1  == IF channel > 14 THEN (d0 * 9) \div 10 ELSE d0
    IN  IF rssi >= cal.A * Scale THEN Scale ELSE Clamp(d1, maxDistVector)

\* vector variant: calculateDistance(float rssi, int channel), rssi in 1/Scale dBm
\* mutant of calculateDistance: a signal equal to the reference strength
\* goes through the path-loss formula
calculateDistanceStrict(rssi, channel) ==
    LET cal == Calibration(channel)
        d0  == Pow10((cal.A * Scale - rssi) \div cal.n10)
        d1  == IF channel > 14 THEN (d0 * 9) \div 10 ELSE d0
    IN  IF rssi > cal.A * Scale THEN minDist ELSE Clamp(d1, maxDistVector)

calculateDistance(rssi, channel) ==
    LET cal == Calibration(channel)
        d0  == Pow10((cal.A * Scale - rssi) \div cal.n10)
        d1  == IF channel > 14 THEN (d0 * 9) \div 10 ELSE d0
    IN  IF rssi >= cal.A * Scale THEN minDist ELSE Clamp(d1, maxDistVector)

\* array variant: calculateDistance(int rssi), rssi in dBm
calculateDistanceArray(rssi) ==
    LET cal == DefaultCalibration
        d0  == Pow10(((cal.A - rssi) * Scale) \div cal.n10)
    IN  IF rssi >= cal.A THEN minDist ELSE Clamp(d0, maxDistArray)

\* calculateDistance of the running variant, for a signal in 1/Scale dBm
Distance(rssi, channel) ==
    IF variant = "vector" THEN calculateDistance(rssi, channel)
    ELSE calculateDistanceArray(rssi \div Scale)

\* the upper limit calculateDistance of the running variant applies
maxDist == IF variant = "vector" THEN maxDistVector ELSE maxDistArray

\* calculateDistance has not been called on its own
NoEstimate == [s1 |-> 0, s2 |-> 0, channel |-> 0, d1 |-> 0, d2 |-> 0]

---------------------------------------------------------------------------
(* Dashboard: class IndoorPositioningApp and the page it draws *)

\* device identifiers the server may send: one of them in two spellings
DashIds == {"aa:01", "AA:01", "BB:02"}

\* String.prototype.toUpperCase on these identifiers
toUpperCase(id) == IF id = "aa:01" THEN "AA:01" ELSE id

\* values of aclConfig (allowed_macs as the set of its elements)
AclConfigs ==
    [enabled : BOOLEAN,
     allowed_macs : {{}, {"AA:01"}, {"aa:01"}, {"BB:02"}, {"AA:01", "BB:02"}}]

\* the constructor: ACL off, empty maps, an empty page. map holds the ids
\* with a .device-point element, list the ids with an entry in
\* #devices-list, count the text of #devices-count
NoApp == [aclConfig |-> [enabled |-> FALSE, allowed_macs |-> {}],
          devices |-> {}, positions |-> {}, map |-> {}, list |-> {}, count |-> 0]

isDeviceAllowed(a, deviceId) ==
    \/ ~a.aclConfig.enabled
    \/ \E mac \in a.aclConfig.allowed_macs : toUpperCase(mac) = toUpperCase(deviceId)

\* renderDevicesList(): the container is emptied and refilled
renderDevicesList(a) == {id \in a.devices : isDeviceAllowed(a, id)}

\* renderDevicesOnMap(): allowed positions are drawn, then every point whose
\* id is not among them is removed
renderDevicesOnMap(a) ==
    LET allowedDevices == {id \in a.positions : isDeviceAllowed(a, id)}
    IN  {id \in a.map \cup allowedDevices : id \in allowedDevices}

\* renderMap(): every device element is removed, allowed positions are drawn
renderMap(a) == {id \in a.positions : isDeviceAllowed(a, id)}

\* updateDevicesCount()
updateDevicesCount(a) == Cardinality({id \in a.devices : isDeviceAllowed(a, id)})

\* socket event position_update
handlePositionUpdate ==
    /\ pc = "page"
    /\ \E id \in DashIds :
          app' = IF ~isDeviceAllowed(app, id) THEN app
                 ELSE [app EXCEPT !.positions = @ \cup {id}, !.map = @ \cup {id}]
    /\ UNCHANGED <<firmwareVars, pc, est, kf>>

\* socket event positions_data and the refresh of /api/positions
updatePositionsData ==
    /\ pc = "page"
    /\ \E positions \in SUBSET DashIds :
          LET a == [app EXCEPT !.positions = positions]
          IN  app' = [a EXCEPT !.map = renderDevicesOnMap(a),
                               !.list = renderDevicesList(a)]
    /\ UNCHANGED <<firmwareVars, pc, est, kf>>

\* socket event devices_data and the refresh of /api/devices
updateDevicesData ==
    /\ pc = "page"
    /\ \E devs \in SUBSET DashIds :
          LET a == [app EXCEPT !.devices = devs]
          IN  app' = [a EXCEPT !.list = renderDevicesList(a),
                               !.count = updateDevicesCount(a)]
    /\ UNCHANGED <<firmwareVars, pc, est, kf>>

\* socket event acl_config_updated
aclConfigUpdated ==
    /\ pc = "page"
    /\ \E config \in AclConfigs :
          LET a == [app EXCEPT !.aclConfig = config]
          IN  app' = [a EXCEPT !.list = renderDevicesList(a),
                               !.map = renderDevicesOnMap(a)]
    /\ UNCHANGED <<firmwareVars, pc, est, kf>>

\* socket event room_config_updated
roomConfigUpdated ==
    /\ pc = "page"
    /\ app' = [app EXCEPT !.map = renderMap(app)]
    /\ UNCHANGED <<firmwareVars, pc, est, kf>>

\* socket event position_removed
handlePositionRemoved ==
    /\ pc = "page"
    /\ \E id \in DashIds :
          LET a == [app EXCEPT !.positions = @ \ {id}, !.map = @ \ {id}]
          IN  app' = [a EXCEPT !.list = renderDevicesList(a)]
    /\ UNCHANGED <<firmwareVars, pc, est, kf>>

\* socket event device_removed
handleDeviceRemoved ==
    /\ pc = "page"
    /\ \E id \in DashIds :
          LET a == [app EXCEPT !.devices = @ \ {id}, !.positions = @ \ {id},
                               !.map = @ \ {id}]
          IN  app' = [a EXCEPT !.list = renderDevicesList(a),
                               !.count = updateDevicesCount(a)]
    /\ UNCHANGED <<firmwareVars, pc, est, kf>>

---------------------------------------------------------------------------
(* Identifiers *)

ourMacs == {"AA:BB:CC:DD:EE:01", "AA:BB:CC:DD:EE:02",
            "AA:BB:CC:DD:EE:03", "AA:BB:CC:DD:EE:04"}

isOurOwnDevice(mac) == mac \in ourMacs

HiddenNetwork == "<Hidden_Network>"

\* mutant of Dropped: the blocklist is not consulted
DroppedEmptyOnly(mac) == mac = ""

\* the test of scanForDevices that drops a scan result
Dropped(mac) == mac = "" \/ isOurOwnDevice(mac)

---------------------------------------------------------------------------
(* Device registry *)

Min(S) == CHOOSE x \in S : \A y \in S : x <= y

\* DeviceInfo devices[10] after zero initialisation and setup()
EmptySlot == [mac |-> "", rssi |-> 0, distance |-> 0, lastSeen |-> 0, active |-> FALSE]

\* mutant of FindActive: the search tests the active flag the wrong way round
FindActiveInverted(devs, mac) == {i \in DOMAIN devs : ~devs[i].active /\ devs[i].mac = mac}

\* indices of the records the search loop of updateDevice matches
FindActive(devs, mac) == {i \in DOMAIN devs : devs[i].active /\ devs[i].mac = mac}

\* mutant of updateDeviceArray: a full registry gives up its first slot
updateDeviceArrayOverwrite(devs, mac, rssi, now) ==
    LET found == FindActive(devs, mac) \cap (1..maxDevices)
        free  == {i \in 1..maxDevices : ~devs[i].active}
        fresh == [mac |-> mac, rssi |-> rssi, distance |-> calculateDistanceArray(rssi),
                  lastSeen |-> now, active |-> TRUE]
    IN  IF found # {}
        THEN [devices |-> [devs EXCEPT ![Min(found)] =
                              [@ EXCEPT !.rssi = rssi,
                                        !.distance = calculateDistanceArray(rssi),
                                        !.lastSeen = now]],
              created |-> FALSE]
        ELSE [devices |-> [devs EXCEPT ![IF free # {} THEN Min(free) ELSE 1] = fresh],
              created |-> TRUE]

\* array variant: updateDevice(mac, rssi); `created` is the returned bool
\* mutant of updateDeviceArray: a slot that held a record is never used again
updateDeviceArrayNoReuse(devs, mac, rssi, now) ==
    LET found == FindActive(devs, mac) \cap (1..maxDevices)
        free  == {i \in 1..maxDevices : ~devs[i].active /\ devs[i].mac = ""}
    IN  IF found # {}
        THEN [devices |-> [devs EXCEPT ![Min(found)] =
                              [@ EXCEPT !.rssi = rssi,
                                        !.distance = calculateDistanceArray(rssi),
                                        !.lastSeen = now]],
              created |-> FALSE]
        ELSE IF free # {}
        THEN [devices |-> [devs EXCEPT ![Min(free)] =
                              [mac |-> mac, rssi |-> rssi,
                               distance |-> calculateDistanceArray(rssi),
                               lastSeen |-> now, active |-> TRUE]],
              created |-> TRUE]
        ELSE [devices |-> devs, created |-> FALSE]

updateDeviceArray(devs, mac, rssi, now) ==
    LET found == FindActive(devs, mac) \cap (1..maxDevices)
        free  == {i \in 1..maxDevices : ~devs[i].active}
    IN  IF found # {}
        THEN [devices |-> [devs EXCEPT ![Min(found)] =
                              [@ EXCEPT !.rssi = rssi,
                                        !.distance = calculateDistanceArray(rssi),
                                        !.lastSeen = now]],
              created |-> FALSE]
        ELSE IF free # {}
        THEN [devices |-> [devs EXCEPT ![Min(free)] =
                              [mac |-> mac, rssi |-> rssi,
                               distance |-> calculateDistanceArray(rssi),
                               lastSeen |-> now, active |-> TRUE]],
              created |-> TRUE]
        ELSE [devices |-> devs, created |-> FALSE]

\* vector variant: the filter lookup and update at the top of updateDevice
FilterStep(filters, mac, rssi) ==
    LET f0 == IF mac \in DOMAIN filters THEN filters[mac] ELSE NewKalmanFilter
        f1 == KalmanUpdate(f0, rssi * Scale)
    IN  [m \in (DOMAIN filters) \cup {mac} |-> IF m = mac THEN f1 ELSE filters[m]]

\* mutant of updateDeviceVector: an update copies the label of the observation
updateDeviceVectorRelabel(devs, filters, o, now) ==
    LET fs       == FilterStep(filters, o.mac, o.rssi)
        filtered == fs[o.mac].X
        found    == FindActive(devs, o.mac)
    IN  IF found # {}
        THEN [devices |-> [devs EXCEPT ![Min(found)] =
                              [@ EXCEPT !.rssi = o.rssi,
                                        !.rssi_filtered = filtered,
                                        !.distance = calculateDistance(filtered, o.channel),
                                        !.lastSeen = now,
                                        !.packet_count = @ + 1,
                                        !.timestamp = now,
                                        !.ssid = o.ssid,
                                        !.hidden_ssid = o.hidden_ssid]],
              filters |-> fs, created |-> FALSE]
        ELSE [devices |-> Append(devs,
                              [mac |-> o.mac, ssid |-> o.ssid, hidden_ssid |-> o.hidden_ssid,
                               rssi |-> o.rssi, rssi_filtered |-> filtered,
                               channel |-> o.channel,
                               distance |-> calculateDistance(filtered, o.channel),
                               lastSeen |-> now, active |-> TRUE, packet_count |-> 1,
                               timestamp |-> now]),
              filters |-> fs, created |-> TRUE]

\* mutant of updateDeviceVector: an update stores the raw signal as the
\* filtered one
updateDeviceVectorRawAsFiltered(devs, filters, o, now) ==
    LET fs       == FilterStep(filters, o.mac, o.rssi)
        filtered == fs[o.mac].X
        found    == FindActive(devs, o.mac)
        reveal(d) == d.hidden_ssid /\ ~o.hidden_ssid
    IN  IF found # {}
        THEN [devices |-> [devs EXCEPT ![Min(found)] =
                              [@ EXCEPT !.rssi = o.rssi,
                                        !.rssi_filtered = o.rssi * Scale,
                                        !.distance = calculateDistance(filtered, o.channel),
                                        !.lastSeen = now,
                                        !.packet_count = @ + 1,
                                        !.timestamp = now,
                                        !.ssid = IF reveal(devs[Min(found)]) THEN o.ssid ELSE @,
                                        !.hidden_ssid = IF reveal(devs[Min(found)]) THEN FALSE ELSE @]],
              filters |-> fs, created |-> FALSE]
        ELSE [devices |-> Append(devs,
                              [mac |-> o.mac, ssid |-> o.ssid, hidden_ssid |-> o.hidden_ssid,
                               rssi |-> o.rssi, rssi_filtered |-> filtered,
                               channel |-> o.channel,
                               distance |-> calculateDistance(filtered, o.channel),
                               lastSeen |-> now, active |-> TRUE, packet_count |-> 1,
                               timestamp |-> now]),
              filters |-> fs, created |-> TRUE]

\* mutant of updateDeviceVector: an update takes over every concrete label
\* it is given
updateDeviceVectorFollowsLabel(devs, filters, o, now) ==
    LET fs       == FilterStep(filters, o.mac, o.rssi)
        filtered == fs[o.mac].X
        found    == FindActive(devs, o.mac)
    IN  IF found # {}
        THEN [devices |-> [devs EXCEPT ![Min(found)] =
                              [@ EXCEPT !.rssi = o.rssi,
                                        !.rssi_filtered = filtered,
                                        !.distance = calculateDistance(filtered, o.channel),
                                        !.lastSeen = now,
                                        !.packet_count = @ + 1,
                                        !.timestamp = now,
                                        !.ssid = IF ~o.hidden_ssid THEN o.ssid ELSE @,
                                        !.hidden_ssid = IF ~o.hidden_ssid THEN FALSE ELSE @]],
              filters |-> fs, created |-> FALSE]
        ELSE [devices |-> Append(devs,
                              [mac |-> o.mac, ssid |-> o.ssid, hidden_ssid |-> o.hidden_ssid,
                               rssi |-> o.rssi, rssi_filtered |-> filtered,
                               channel |-> o.channel,
                               distance |-> calculateDistance(filtered, o.channel),
                               lastSeen |-> now, active |-> TRUE, packet_count |-> 1,
                               timestamp |-> now]),
              filters |-> fs, created |-> TRUE]

\* mutant of updateDeviceVector: an update that reveals a label is not
\* counted
updateDeviceVectorRevealUncounted(devs, filters, o, now) ==
    LET fs       == FilterStep(filters, o.mac, o.rssi)
        filtered == fs[o.mac].X
        found    == FindActive(devs, o.mac)
        reveal(d) == d.hidden_ssid /\ ~o.hidden_ssid
    IN  IF found # {}
        THEN [devices |-> [devs EXCEPT ![Min(found)] =
                              [@ EXCEPT !.rssi = o.rssi,
                                        !.rssi_filtered = filtered,
                                        !.distance = calculateDistance(filtered, o.channel),
                                        !.lastSeen = now,
                                        !.packet_count = IF reveal(devs[Min(found)]) THEN @ ELSE @ + 1,
                                        !.timestamp = now,
                                        !.ssid = IF reveal(devs[Min(found)]) THEN o.ssid ELSE @,
                                        !.hidden_ssid = IF reveal(devs[Min(found)]) THEN FALSE ELSE @]],
              filters |-> fs, created |-> FALSE]
        ELSE [devices |-> Append(devs,
                              [mac |-> o.mac, ssid |-> o.ssid, hidden_ssid |-> o.hidden_ssid,
                               rssi |-> o.rssi, rssi_filtered |-> filtered,
                               channel |-> o.channel,
                               distance |-> calculateDistance(filtered, o.channel),
                               lastSeen |-> now, active |-> TRUE, packet_count |-> 1,
                               timestamp |-> now]),
              filters |-> fs, created |-> TRUE]

\* vector variant: updateDevice(mac, ssid, hidden_ssid, rssi, channel)
updateDeviceVector(devs, filters, o, now) ==
    LET fs       == FilterStep(filters, o.mac, o.rssi)
        filtered == fs[o.mac].X
        found    == FindActive(devs, o.mac)
        reveal(d) == d.hidden_ssid /\ ~o.hidden_ssid
    IN  IF found # {}
        THEN [devices |-> [devs EXCEPT ![Min(found)] =
                              [@ EXCEPT !.rssi = o.rssi,
                                        !.rssi_filtered = filtered,
                                        !.distance = calculateDistance(filtered, o.channel),
                                        !.lastSeen = now,
                                        !.packet_count = @ + 1,
                                        !.timestamp = now,
                                        !.ssid = IF reveal(devs[Min(found)]) THEN o.ssid ELSE @,
                                        !.hidden_ssid = IF reveal(devs[Min(found)]) THEN FALSE ELSE @]],
              filters |-> fs, created |-> FALSE]
        ELSE [devices |-> Append(devs,
                              [mac |-> o.mac, ssid |-> o.ssid, hidden_ssid |-> o.hidden_ssid,
                               rssi |-> o.rssi, rssi_filtered |-> filtered,
                               channel |-> o.channel,
                               distance |-> calculateDistance(filtered, o.channel),
                               lastSeen |-> now, active |-> TRUE, packet_count |-> 1,
                               timestamp |-> now]),
              filters |-> fs, created |-> TRUE]

\* mutant of IsStale: >= instead of >
IsStaleInclusive(d, now) == d.active /\ Elapsed(now, d.lastSeen) >= T_stale

\* mutant of IsStale: the elapsed time is taken in seconds and compared with
\* the period in milliseconds
IsStaleSeconds(d, now) == d.active /\ Elapsed(now, d.lastSeen) \div 1000 > T_stale

\* the staleness test of cleanupOldDevices
IsStale(d, now) == d.active /\ Elapsed(now, d.lastSeen) > T_stale

\* array variant: cleanupOldDevices()
cleanupArray(devs, now) ==
    LET stale == {i \in 1..maxDevices : IsStale(devs[i], now)}
    IN  [devices |-> [i \in DOMAIN devs |->
                         IF i \in stale THEN [devs[i] EXCEPT !.active = FALSE] ELSE devs[i]],
         removed |-> Cardinality(stale),
         macs    |-> {devs[i].mac : i \in stale}]

\* mutant of cleanupVector: kalmanFilters.erase is left out
cleanupVectorKeepFilters(devs, filters, now) ==
    LET stale == {i \in DOMAIN devs : IsStale(devs[i], now)}
    IN  [devices |-> SelectSeq(devs, LAMBDA d : ~IsStale(d, now)),
         filters |-> filters,
         removed |-> Cardinality(stale),
         macs    |-> {devs[i].mac : i \in stale}]

\* mutant of cleanupVector: a stale record is marked inactive and kept
cleanupVectorMarks(devs, filters, now) ==
    LET stale == {i \in DOMAIN devs : IsStale(devs[i], now)}
        gone  == {devs[i].mac : i \in stale}
    IN  [devices |-> [i \in DOMAIN devs |->
                         IF i \in stale THEN [devs[i] EXCEPT !.active = FALSE] ELSE devs[i]],
         filters |-> [m \in (DOMAIN filters) \ gone |-> filters[m]],
         removed |-> Cardinality(stale),
         macs    |-> gone]

\* vector variant: cleanupOldDevices()
cleanupVector(devs, filters, now) ==
    LET stale == {i \in DOMAIN devs : IsStale(devs[i], now)}
        gone  == {devs[i].mac : i \in stale}
    IN  [devices |-> SelectSeq(devs, LAMBDA d : ~IsStale(d, now)),
         filters |-> [m \in (DOMAIN filters) \ gone |-> filters[m]],
         removed |-> Cardinality(stale),
         macs    |-> gone]

\* countActiveDevices()
countActiveDevices == Cardinality({i \in DOMAIN devices : devices[i].active})

ActiveMacs == {devices[i].mac : i \in {j \in DOMAIN devices : devices[j].active}}

---------------------------------------------------------------------------
(* Report encoder *)

\* String(value, decimals): value/unit rounded to the nearest integer
RoundDiv(x, unit) ==
    IF x >= 0 THEN (x + unit \div 2) \div unit ELSE -((unit \div 2 - x) \div unit)

\* one element of "measurements" in the JSON body
Entry(d) ==
    IF variant = "vector"
    THEN [mac |-> d.mac, ssid |-> d.ssid, hidden_ssid |-> d.hidden_ssid,
          rssi |-> d.rssi, rssi_filtered |-> RoundDiv(d.rssi_filtered, 100),
          distance |-> RoundDiv(d.distance, 10), channel |-> d.channel,
          packet_count |-> d.packet_count, device_timestamp |-> d.timestamp]
    ELSE [mac |-> d.mac, rssi |-> d.rssi, distance |-> RoundDiv(d.distance, 10)]

\* mutant of Measurements: every slot that ever held a record is reported
RECURSIVE MeasurementsWithEvicted(_)
MeasurementsWithEvicted(devs) ==
    IF devs = <<>> THEN <<>>
    ELSE IF Head(devs).mac # ""
         THEN <<Entry(Head(devs))>> \o MeasurementsWithEvicted(Tail(devs))
         ELSE MeasurementsWithEvicted(Tail(devs))

RECURSIVE Measurements(_)
Measurements(devs) ==
    IF devs = <<>> THEN <<>>
    ELSE IF Head(devs).active THEN <<Entry(Head(devs))>> \o Measurements(Tail(devs))
    ELSE Measurements(Tail(devs))

HttpOk == 200
HttpServerError == 500
HttpReadTimeout == -11
HttpCodes == {HttpOk, HttpServerError, HttpReadTimeout}

NoReport == [status |-> "none", code |-> 0, payload |-> <<>>]

---------------------------------------------------------------------------
(* Environment: what WiFi.scanNetworks can return *)

ValidMacs == {"D1", "D2"}
Ssids == {"", "Net"}
Rssis == {-60, -50}
Channels == {6}

Observations ==
    [mac : ValidMacs, ssid : Ssids, rssi : Rssis, channel : Channels]
    \cup {[mac |-> "", ssid |-> "Net", rssi |-> -60, channel |-> 6],
          [mac |-> "AA:BB:CC:DD:EE:02", ssid |-> "Net", rssi |-> -60, channel |-> 6]}

Min2(a, b) == IF a < b THEN a ELSE b

ScanChoices(obs, budget) == SeqsUpTo(obs, Min2(MaxScan, budget))

\* the scan results of the specification with fairness
LiveObservations == {o \in Observations : o.ssid = "Net" /\ o.rssi = -60}

\* a crowded environment: the first k of CrowdSize access points answer
CrowdMac(i) == <<"C01", "C02", "C03", "C04", "C05", "C06", "C07", "C08",
                 "C09", "C10", "C11", "C12", "C13">>[i]
CrowdScan(k) == [i \in 1..k |-> [mac |-> CrowdMac(i), ssid |-> "Crowd",
                                 rssi |-> -60, channel |-> 6]]
CrowdPrefixes == {0, 1, CrowdSize - 1, CrowdSize}

---------------------------------------------------------------------------
(* Initial state: after setup() *)

Init ==
    /\ variant \in {"array", "vector"}
    /\ clock = BootMs
    /\ pc = "loop"
    /\ currentTime = 0
    /\ lastScan = 0
    /\ lastCleanup = 0
    /\ devices = IF variant = "array" THEN [i \in 1..maxDevices |-> EmptySlot] ELSE <<>>
    /\ kalmanFilters = [m \in {} |-> NewKalmanFilter]
    /\ scanResults = <<>>
    /\ newDevices = 0
    /\ updatedDevices = 0
    /\ removedCount = 0
    /\ removedLog = {}
    /\ report = NoReport
    /\ obsLeft = MaxObs
    /\ est = NoEstimate
    /\ kf = NoFilterRun
    /\ app = NoApp

---------------------------------------------------------------------------
(* loop() and the functions it calls, one action per step *)

\* mutant of LoopBeginUntil: the scan guard is >= instead of >
LoopBeginUntilInclusive(limit) ==
    /\ pc = "loop"
    /\ clock <= limit
    /\ currentTime' = clock
    /\ pc' = IF Elapsed(clock, lastScan) >= T_scan THEN "scan" ELSE "cleanup"
    /\ UNCHANGED <<variant, clock, lastScan, lastCleanup, devices, kalmanFilters,
                   scanResults, newDevices, updatedDevices, removedCount,
                   removedLog, report, obsLeft>>
    /\ UNCHANGED benchVars

\* top of loop(): read millis() and test the scan guard; no iteration
\* starts after time `limit`
\* mutant of LoopBeginUntil: a cycle that is due goes to the report without
\* scanning
LoopBeginUntilNoScan(limit) ==
    /\ pc = "loop"
    /\ clock <= limit
    /\ currentTime' = clock
    /\ pc' = IF Elapsed(clock, lastScan) > T_scan THEN "send" ELSE "cleanup"
    /\ UNCHANGED <<variant, clock, lastScan, lastCleanup, devices, kalmanFilters,
                   scanResults, newDevices, updatedDevices, removedCount,
                   removedLog, report, obsLeft>>
    /\ UNCHANGED benchVars

\* mutant of LoopBeginUntil: the scan guard adds the period to lastScan and
\* compares the sum with the reading, both as unsigned 32-bit values
LoopBeginUntilAdditive(limit) ==
    LET due  == lastScan + T_scan
        gtU  == IF (clock < 0) = (due < 0) THEN clock > due ELSE clock < 0
    IN  /\ pc = "loop"
        /\ clock <= limit
        /\ currentTime' = clock
        /\ pc' = IF gtU THEN "scan" ELSE "cleanup"
        /\ UNCHANGED <<variant, clock, lastScan, lastCleanup, devices, kalmanFilters,
                       scanResults, newDevices, updatedDevices, removedCount,
                       removedLog, report, obsLeft>>
        /\ UNCHANGED benchVars

LoopBeginUntil(limit) ==
    /\ pc = "loop"
    /\ clock <= limit
    /\ currentTime' = clock
    /\ pc' = IF Elapsed(clock, lastScan) > T_scan THEN "scan" ELSE "cleanup"
    /\ UNCHANGED <<variant, clock, lastScan, lastCleanup, devices, kalmanFilters,
                   scanResults, newDevices, updatedDevices, removedCount,
                   removedLog, report, obsLeft>>
    /\ UNCHANGED benchVars

LoopBegin == LoopBeginUntil(MaxClock)

\* mutant of ScanStart: a scan that finds nothing empties the registry
ScanStartForgets(res) ==
    /\ pc = "scan"
    /\ clock' = clock + ScanMs
    /\ scanResults' = res
    /\ newDevices' = 0
    /\ updatedDevices' = 0
    /\ pc' = IF Len(res) = 0 THEN "send" ELSE "scanLoop"
    /\ devices' = IF Len(res) # 0 THEN devices
                  ELSE IF variant = "vector" THEN <<>>
                  ELSE [i \in DOMAIN devices |-> [devices[i] EXCEPT !.active = FALSE]]
    /\ UNCHANGED <<variant, currentTime, lastScan, lastCleanup,
                   kalmanFilters, removedCount, removedLog, report>>
    /\ UNCHANGED benchVars

\* scanForDevices() up to its for-loop: WiFi.scanNetworks blocks, returns res
ScanStart(res) ==
    /\ pc = "scan"
    /\ clock' = clock + ScanMs
    /\ scanResults' = res
    /\ newDevices' = 0
    /\ updatedDevices' = 0
    /\ pc' = IF Len(res) = 0 THEN "send" ELSE "scanLoop"
    /\ UNCHANGED <<variant, currentTime, lastScan, lastCleanup, devices,
                   kalmanFilters, removedCount, removedLog, report>>
    /\ UNCHANGED benchVars

ScanForDevices ==
    \E res \in ScanChoices(Observations, obsLeft) :
        /\ ScanStart(res)
        /\ obsLeft' = obsLeft - Len(res)

ScanLive ==
    \E res \in ScanChoices(LiveObservations, obsLeft) :
        /\ ScanStart(res)
        /\ obsLeft' = obsLeft - Len(res)

ScanCrowd ==
    \E k \in CrowdPrefixes :
        /\ ScanStart(CrowdScan(k))
        /\ UNCHANGED obsLeft

\* what one accepted scan result does to the registry and the filter store
Upsert(o) ==
    LET hidden == o.ssid = ""
        obs    == [mac |-> o.mac, ssid |-> IF hidden THEN HiddenNetwork ELSE o.ssid,
                   hidden_ssid |-> hidden, rssi |-> o.rssi, channel |-> o.channel]
    IN  IF variant = "vector"
        THEN updateDeviceVector(devices, kalmanFilters, obs, clock)
        ELSE [devices |-> updateDeviceArray(devices, o.mac, o.rssi, clock).devices,
              filters |-> kalmanFilters,
              created |-> updateDeviceArray(devices, o.mac, o.rssi, clock).created]

\* one pass of the for-loop of scanForDevices
\* mutant of ProcessResult: the scan hands over to the report after its
\* first result
ProcessResultYields ==
    /\ pc = "scanLoop"
    /\ LET o == Head(scanResults)
       IN  IF Dropped(o.mac)
           THEN UNCHANGED <<devices, kalmanFilters, newDevices, updatedDevices>>
           ELSE /\ devices' = Upsert(o).devices
                /\ kalmanFilters' = Upsert(o).filters
                /\ newDevices' = newDevices + (IF Upsert(o).created THEN 1 ELSE 0)
                /\ updatedDevices' = updatedDevices + (IF Upsert(o).created THEN 0 ELSE 1)
    /\ scanResults' = Tail(scanResults)
    /\ pc' = "send"
    /\ UNCHANGED <<variant, clock, currentTime, lastScan, lastCleanup,
                   removedCount, removedLog, report, obsLeft>>
    /\ UNCHANGED benchVars

ProcessResult ==
    /\ pc = "scanLoop"
    /\ LET o == Head(scanResults)
       IN  IF Dropped(o.mac)
           THEN UNCHANGED <<devices, kalmanFilters, newDevices, updatedDevices>>
           ELSE /\ devices' = Upsert(o).devices
                /\ kalmanFilters' = Upsert(o).filters
                /\ newDevices' = newDevices + (IF Upsert(o).created THEN 1 ELSE 0)
                /\ updatedDevices' = updatedDevices + (IF Upsert(o).created THEN 0 ELSE 1)
    /\ scanResults' = Tail(scanResults)
    /\ pc' = IF Len(scanResults) = 1 THEN "send" ELSE "scanLoop"
    /\ UNCHANGED <<variant, clock, currentTime, lastScan, lastCleanup,
                   removedCount, removedLog, report, obsLeft>>
    /\ UNCHANGED benchVars

\* mutant of SendDataToServer: a send error empties the registry
SendDataToServerForgets ==
    /\ pc = "send"
    /\ \E connected \in BOOLEAN, code \in HttpCodes :
          IF ~connected
          THEN /\ code = HttpOk
               /\ report' = [status |-> "skipped", code |-> 0, payload |-> <<>>]
               /\ clock' = clock
               /\ devices' = devices
          ELSE /\ report' = [status |-> IF code > 0 THEN "ok" ELSE "failed",
                             code |-> code, payload |-> Measurements(devices)]
               /\ clock' = clock + (IF code = HttpReadTimeout THEN HttpTimeoutMs ELSE 0)
               /\ devices' = IF code > 0 THEN devices
                             ELSE IF variant = "vector" THEN <<>>
                             ELSE [i \in DOMAIN devices |-> [devices[i] EXCEPT !.active = FALSE]]
    /\ lastScan' = IF variant = "vector" THEN currentTime ELSE clock'
    /\ pc' = "cleanup"
    /\ UNCHANGED <<variant, currentTime, lastCleanup, kalmanFilters,
                   scanResults, newDevices, updatedDevices, removedCount,
                   removedLog, obsLeft>>
    /\ UNCHANGED benchVars

\* mutant of SendDataToServer: after a send error the stored body is sent again
SendDataToServerReplay ==
    /\ pc = "send"
    /\ \E connected \in BOOLEAN, code \in HttpCodes :
          IF ~connected
          THEN /\ code = HttpOk
               /\ report' = [status |-> "skipped", code |-> 0, payload |-> <<>>]
               /\ clock' = clock
          ELSE /\ report' = [status |-> IF code > 0 THEN "ok" ELSE "failed",
                             code |-> code,
                             payload |-> IF report.status = "failed" THEN report.payload
                                         ELSE Measurements(devices)]
               /\ clock' = clock + (IF code = HttpReadTimeout THEN HttpTimeoutMs ELSE 0)
    /\ lastScan' = IF variant = "vector" THEN currentTime ELSE clock'
    /\ pc' = "cleanup"
    /\ UNCHANGED <<variant, currentTime, lastCleanup, devices, kalmanFilters,
                   scanResults, newDevices, updatedDevices, removedCount,
                   removedLog, obsLeft>>
    /\ UNCHANGED benchVars

\* mutant of SendDataToServer: without WiFi the rest of the iteration is skipped
SendDataToServerReturnsEarly ==
    /\ pc = "send"
    /\ \E connected \in BOOLEAN, code \in HttpCodes :
          IF ~connected
          THEN /\ code = HttpOk
               /\ report' = [status |-> "skipped", code |-> 0, payload |-> <<>>]
               /\ clock' = clock
               /\ pc' = "loop"
          ELSE /\ report' = [status |-> IF code > 0 THEN "ok" ELSE "failed",
                             code |-> code, payload |-> Measurements(devices)]
               /\ clock' = clock + (IF code = HttpReadTimeout THEN HttpTimeoutMs ELSE 0)
               /\ pc' = "cleanup"
    /\ lastScan' = IF variant = "vector" THEN currentTime ELSE clock'
    /\ UNCHANGED <<variant, currentTime, lastCleanup, devices, kalmanFilters,
                   scanResults, newDevices, updatedDevices, removedCount,
                   removedLog, obsLeft>>
    /\ UNCHANGED benchVars

\* mutant of SendDataToServer: without WiFi the node waits for the connection
\* and never gets it
SendDataToServerHalts ==
    /\ pc = "send"
    /\ \E connected \in BOOLEAN, code \in HttpCodes :
          IF ~connected
          THEN /\ code = HttpOk
               /\ report' = [status |-> "skipped", code |-> 0, payload |-> <<>>]
               /\ clock' = clock
               /\ pc' = "halted"
          ELSE /\ report' = [status |-> IF code > 0 THEN "ok" ELSE "failed",
                             code |-> code, payload |-> Measurements(devices)]
               /\ clock' = clock + (IF code = HttpReadTimeout THEN HttpTimeoutMs ELSE 0)
               /\ pc' = "cleanup"
    /\ lastScan' = IF variant = "vector" THEN currentTime ELSE clock'
    /\ UNCHANGED <<variant, currentTime, lastCleanup, devices, kalmanFilters,
                   scanResults, newDevices, updatedDevices, removedCount,
                   removedLog, obsLeft>>
    /\ UNCHANGED benchVars

\* sendDataToServer(), then lastScan is set by loop()
SendDataToServer ==
    /\ pc = "send"
    /\ \E connected \in BOOLEAN, code \in HttpCodes :
          IF ~connected
          THEN /\ code = HttpOk
               /\ report' = [status |-> "skipped", code |-> 0, payload |-> <<>>]
               /\ clock' = clock
          ELSE /\ report' = [status |-> IF code > 0 THEN "ok" ELSE "failed",
                             code |-> code, payload |-> Measurements(devices)]
               /\ clock' = clock + (IF code = HttpReadTimeout THEN HttpTimeoutMs ELSE 0)
    /\ lastScan' = IF variant = "vector" THEN currentTime ELSE clock'
    /\ pc' = "cleanup"
    /\ UNCHANGED <<variant, currentTime, lastCleanup, devices, kalmanFilters,
                   scanResults, newDevices, updatedDevices, removedCount,
                   removedLog, obsLeft>>
    /\ UNCHANGED benchVars

\* what cleanupOldDevices() does at millis() = clock
Sweep ==
    IF variant = "vector"
    THEN cleanupVector(devices, kalmanFilters, clock)
    ELSE [devices |-> cleanupArray(devices, clock).devices,
          filters |-> kalmanFilters,
          removed |-> cleanupArray(devices, clock).removed,
          macs    |-> cleanupArray(devices, clock).macs]

\* the value the cleanup guard of loop() compares with lastCleanup
GuardTime == IF variant = "vector" THEN currentTime ELSE clock

CleanupDue == Elapsed(GuardTime, lastCleanup) > T_cleanup

\* the rest of loop(): the cleanup guard, cleanupOldDevices() and delay(100)
CleanupStep ==
    /\ pc = "cleanup"
    /\ IF CleanupDue
       THEN /\ devices' = Sweep.devices
            /\ kalmanFilters' = Sweep.filters
            /\ removedCount' = Sweep.removed
            /\ removedLog' = removedLog \cup Sweep.macs
            /\ lastCleanup' = GuardTime
       ELSE UNCHANGED <<devices, kalmanFilters, removedCount, removedLog, lastCleanup>>
    /\ clock' = clock + DelayMs
    /\ pc' = "loop"
    /\ UNCHANGED <<variant, currentTime, lastScan, scanResults,
                   newDevices, updatedDevices, report, obsLeft>>
    /\ UNCHANGED benchVars

Next ==
    \/ LoopBegin
    \/ ScanForDevices
    \/ ProcessResult
    \/ SendDataToServer
    \/ CleanupStep

Spec == Init /\ [][Next]_vars

NextCrowd ==
    \/ LoopBegin
    \/ ScanCrowd
    \/ ProcessResult
    \/ SendDataToServer
    \/ CleanupStep

SpecCrowd == Init /\ [][NextCrowd]_vars

\* A longer run with fewer scan results. loop() is called again and again by
\* the Arduino runtime and each of its steps returns (the scan and the HTTP
\* call are bounded by the platform and by the 5000 ms timeout).
InitLive ==
    /\ variant \in {"array", "vector"}
    /\ clock = BootMs
    /\ pc = "loop"
    /\ currentTime = 0
    /\ lastScan = 0
    /\ lastCleanup = 0
    /\ devices = IF variant = "array" THEN [i \in 1..maxDevices |-> EmptySlot] ELSE <<>>
    /\ kalmanFilters = [m \in {} |-> NewKalmanFilter]
    /\ scanResults = <<>>
    /\ newDevices = 0
    /\ updatedDevices = 0
    /\ removedCount = 0
    /\ removedLog = {}
    /\ report = NoReport
    /\ obsLeft = MaxObsLive
    /\ est = NoEstimate
    /\ kf = NoFilterRun
    /\ app = NoApp

LoopBeginLive == LoopBeginUntil(MaxClockLive)

NextLive ==
    \/ LoopBeginLive
    \/ ScanLive
    \/ ProcessResult
    \/ SendDataToServer
    \/ CleanupStep

SpecLive == InitLive /\ [][NextLive]_vars /\ WF_vars(NextLive)

---------------------------------------------------------------------------
(* calculateDistance on its own, and the loop with a wide range of signals *)

WeakestDbm == 100       \* signals from -WeakestDbm dBm up to 0 dBm
MaxObsWide == 2         \* results delivered in one run
MaxClockWide == 12000   \* no loop iteration starts after this time

\* smoothed signals: every whole dBm, and the values next to the reference
\* strengths A = -45 and A = -40
Signals ==
    {(-Scale) * k : k \in 0..WeakestDbm}
    \cup {-45001, -44999, -40001, -39999}

\* the channels of channelCalibrations and channels it does not list
EstimateChannels == {0, 1, 3, 6, 11, 14, 15, 36, 40, 44, 48, 100}

\* the arguments of two calls of calculateDistance on one channel; the array
\* variant takes an int and no channel
EstimateInputs ==
    IF variant = "vector"
    THEN {[s1 |-> a, s2 |-> b, channel |-> c, d1 |-> 0, d2 |-> 0] :
             a \in Signals, b \in Signals, c \in EstimateChannels}
    ELSE {[s1 |-> a, s2 |-> b, channel |-> 0, d1 |-> 0, d2 |-> 0] :
             a \in {x \in Signals : x % Scale = 0},
             b \in {x \in Signals : x % Scale = 0}}

\* scan results with weak and strong signals on listed and unlisted channels
WideRssis == {-100, -80, -60, -46, -45, -30}
WideChannels == {6, 13, 36, 100}
WideObservations == [mac : {"D1"}, ssid : {"Net"}, rssi : WideRssis, channel : WideChannels]

\* the firmware after setup(), with `budget` scan results to come
AfterSetup(budget) ==
    /\ variant \in {"array", "vector"}
    /\ clock = BootMs
    /\ currentTime = 0
    /\ lastScan = 0
    /\ lastCleanup = 0
    /\ devices = IF variant = "array" THEN [i \in 1..maxDevices |-> EmptySlot] ELSE <<>>
    /\ kalmanFilters = [m \in {} |-> NewKalmanFilter]
    /\ scanResults = <<>>
    /\ newDevices = 0
    /\ updatedDevices = 0
    /\ removedCount = 0
    /\ removedLog = {}
    /\ report = NoReport
    /\ obsLeft = budget

InitEstimator ==
    /\ AfterSetup(MaxObsWide)
    /\ kf = NoFilterRun
    /\ app = NoApp
    /\ \/ /\ pc = "loop"
          /\ est = NoEstimate
       \/ /\ pc = "calculateDistance"
          /\ est \in {e \in EstimateInputs : e.s1 <= e.s2}

\* two calls of calculateDistance
Estimate ==
    /\ pc = "calculateDistance"
    /\ est' = [est EXCEPT !.d1 = Distance(est.s1, est.channel),
                          !.d2 = Distance(est.s2, est.channel)]
    /\ pc' = "returned"
    /\ UNCHANGED <<firmwareVars, kf, app>>

LoopBeginWide == LoopBeginUntil(MaxClockWide)

\* a scan that finds at most one access point
ScanWide ==
    \E res \in SeqsUpTo(WideObservations, Min2(1, obsLeft)) :
        /\ ScanStart(res)
        /\ obsLeft' = obsLeft - Len(res)

NextEstimator ==
    \/ Estimate
    \/ LoopBeginWide
    \/ ScanWide
    \/ ProcessResult
    \/ SendDataToServer
    \/ CleanupStep

SpecEstimator == InitEstimator /\ [][NextEstimator]_vars

---------------------------------------------------------------------------
(* One KalmanFilter on its own *)

MaxFeed == 4    \* measurements given to the filter

\* raw measurements: WiFi.RSSI values in dBm
FeedRssis == {-90, -60, -45, -20}

InitFilter ==
    /\ AfterSetup(0)
    /\ pc = "kalman"
    /\ est = NoEstimate
    /\ kf = NoFilterRun
    /\ app = NoApp

\* kalmanFilters[mac].update(rssi) on a filter constructed by KalmanFilter()
KalmanFeed ==
    /\ pc = "kalman"
    /\ kf.n < MaxFeed
    /\ \E rssi \in FeedRssis :
          kf' = [f    |-> KalmanUpdate(kf.f, rssi * Scale),
                 prev |-> kf.f,
                 m    |-> rssi * Scale,
                 run  |-> IF kf.n > 0 /\ kf.m = rssi * Scale THEN kf.run + 1 ELSE 1,
                 n    |-> kf.n + 1]
    /\ UNCHANGED <<firmwareVars, pc, est, app>>

NextFilter == KalmanFeed

SpecFilter == InitFilter /\ [][NextFilter]_vars

---------------------------------------------------------------------------
(* The loop with one access point whose network name comes and goes *)

MaxObsLabel == 3        \* results delivered in one run
MaxClockLabel == 40000  \* no loop iteration starts after this time

\* WiFi.SSID is empty for a hidden network
LabelSsids == {"", "Net", "Lab"}
LabelObservations == [mac : {"D1"}, ssid : LabelSsids, rssi : {-60}, channel : {6}]

InitLabels ==
    /\ AfterSetup(MaxObsLabel)
    /\ pc = "loop"
    /\ est = NoEstimate
    /\ kf = NoFilterRun
    /\ app = NoApp

LoopBeginLabels == LoopBeginUntil(MaxClockLabel)

ScanLabels ==
    \E res \in ScanChoices(LabelObservations, obsLeft) :
        /\ ScanStart(res)
        /\ obsLeft' = obsLeft - Len(res)

NextLabels ==
    \/ LoopBeginLabels
    \/ ScanLabels
    \/ ProcessResult
    \/ SendDataToServer
    \/ CleanupStep

SpecLabels == InitLabels /\ [][NextLabels]_vars

---------------------------------------------------------------------------
(* The loop with every outcome that is not a success *)

MaxObsErr == 13       \* results delivered in one run
MaxClockErr == 35000  \* no loop iteration starts after this time

\* scans that find nothing, only an identifier that is dropped, or more
\* access points than the array variant has slots
ErrorScans ==
    {<<>>,
     <<[mac |-> "", ssid |-> "Net", rssi |-> -60, channel |-> 6]>>,
     <<[mac |-> "AA:BB:CC:DD:EE:02", ssid |-> "Net", rssi |-> -60, channel |-> 6]>>,
     CrowdScan(CrowdSize)}

InitErrors ==
    /\ AfterSetup(MaxObsErr)
    /\ pc = "loop"
    /\ est = NoEstimate
    /\ kf = NoFilterRun
    /\ app = NoApp

LoopBeginErrors == LoopBeginUntil(MaxClockErr)

ScanErrors ==
    \E res \in {r \in ErrorScans : Len(r) <= obsLeft} :
        /\ ScanStart(res)
        /\ obsLeft' = obsLeft - Len(res)

NextErrors ==
    \/ LoopBeginErrors
    \/ ScanErrors
    \/ ProcessResult
    \/ SendDataToServer
    \/ CleanupStep

\* loop() is called again and again by the Arduino runtime, and the scan and
\* the HTTP call return after a bounded time
SpecErrors == InitErrors /\ [][NextErrors]_vars /\ WF_vars(NextErrors)

---------------------------------------------------------------------------

(* The loop with two access points whose signal and channel change *)

MaxObsMerge == 3        \* results delivered in one run
MaxClockMerge == 12000  \* no loop iteration starts after this time

MergeRssis == {-80, -50}
MergeChannels == {6, 36}
MergeObservations ==
    [mac : ValidMacs, ssid : {"Net"}, rssi : MergeRssis, channel : MergeChannels]

InitMerge ==
    /\ AfterSetup(MaxObsMerge)
    /\ pc = "loop"
    /\ est = NoEstimate
    /\ kf = NoFilterRun
    /\ app = NoApp

LoopBeginMerge == LoopBeginUntil(MaxClockMerge)

ScanMerge ==
    \E res \in ScanChoices(MergeObservations, obsLeft) :
        /\ ScanStart(res)
        /\ obsLeft' = obsLeft - Len(res)

NextMerge ==
    \/ LoopBeginMerge
    \/ ScanMerge
    \/ ProcessResult
    \/ SendDataToServer
    \/ CleanupStep

SpecMerge == InitMerge /\ [][NextMerge]_vars

---------------------------------------------------------------------------
(* The loop while millis() wraps around *)

WrapLead == 12000       \* the run starts this long before millis() wraps
MaxObsWrap == 2         \* results delivered in one run
MaxClockWrap == 20000   \* no loop iteration starts later than this after the wrap

WrapObservations == {[mac |-> "D1", ssid |-> "Net", rssi |-> -60, channel |-> 6]}

\* the node has run for 2^32 - WrapLead ms in a place without access
\* points: the registry is empty, and the iteration before this one has
\* scanned, found the uplink down and swept
InitWrap ==
    /\ variant \in {"array", "vector"}
    /\ clock = -WrapLead
    /\ pc = "loop"
    /\ currentTime = clock - DelayMs - ScanMs
    /\ lastScan = IF variant = "vector" THEN currentTime ELSE clock - DelayMs
    /\ lastCleanup = IF variant = "vector" THEN currentTime ELSE clock - DelayMs
    /\ devices = IF variant = "array" THEN [i \in 1..maxDevices |-> EmptySlot] ELSE <<>>
    /\ kalmanFilters = [m \in {} |-> NewKalmanFilter]
    /\ scanResults = <<>>
    /\ newDevices = 0
    /\ updatedDevices = 0
    /\ removedCount = 0
    /\ removedLog = {}
    /\ report = [status |-> "skipped", code |-> 0, payload |-> <<>>]
    /\ obsLeft = MaxObsWrap
    /\ est = NoEstimate
    /\ kf = NoFilterRun
    /\ app = NoApp

LoopBeginWrap == LoopBeginUntil(MaxClockWrap)

ScanWrap ==
    \E res \in ScanChoices(WrapObservations, obsLeft) :
        /\ ScanStart(res)
        /\ obsLeft' = obsLeft - Len(res)

NextWrap ==
    \/ LoopBeginWrap
    \/ ScanWrap
    \/ ProcessResult
    \/ SendDataToServer
    \/ CleanupStep

SpecWrap == InitWrap /\ [][NextWrap]_vars

---------------------------------------------------------------------------
(* The dashboard on its own *)

InitDashboard ==
    /\ AfterSetup(0)
    /\ variant = "vector"
    /\ pc = "page"
    /\ est = NoEstimate
    /\ kf = NoFilterRun
    /\ app = NoApp

NextDashboard ==
    \/ handlePositionUpdate
    \/ updatePositionsData
    \/ updateDevicesData
    \/ aclConfigUpdated
    \/ roomConfigUpdated
    \/ handlePositionRemoved
    \/ handleDeviceRemoved

SpecDashboard == InitDashboard /\ [][NextDashboard]_vars

---------------------------------------------------------------------------
(* Properties *)

ActiveIdx == {i \in DOMAIN devices : devices[i].active}

\* C1: the number of active records never exceeds the capacity maxDevices,
\* however many distinct identifiers are observed.
C1_WithinCapacity == countActiveDevices <= maxDevices

\* the scan result being processed is a valid, untracked identifier
NewIdentifierPending ==
    /\ pc = "scanLoop"
    /\ ~Dropped(Head(scanResults).mac)
    /\ Head(scanResults).mac \notin ActiveMacs

\* C2: an upsert of a new identifier while maxDevices records are active is
\* rejected: the registry (every record, every field) and the filter store
\* stay as they are, so the number of active records stays maxDevices.
C2_RejectedWhenFull ==
    [][(NewIdentifierPending /\ countActiveDevices = maxDevices)
          => (devices' = devices /\ kalmanFilters' = kalmanFilters)]_vars

\* C3: in the vector variant a filter exists for an identifier exactly when
\* an active record exists for it.
C3_FilterIffActive ==
    variant = "vector" => DOMAIN kalmanFilters = ActiveMacs

\* an identifier was evicted together with its filter while another one
\* is still tracked and filtered
C3_Witness ==
    /\ variant = "vector"
    /\ "D1" \in removedLog
    /\ "D1" \notin DOMAIN kalmanFilters
    /\ "D2" \in DOMAIN kalmanFilters

\* C4: no two active records carry the same identifier.
C4_OneRecordPerMac ==
    \A i, j \in ActiveIdx : devices[i].mac = devices[j].mac => i = j

\* an identifier observed twice is tracked by its one record
C4_Witness ==
    /\ variant = "vector"
    /\ Len(devices) = 1
    /\ devices[1].packet_count = 2

\* C5: a sweep at time `clock` removes exactly the active records with
\* clock - lastSeen > T_stale (with their filters), keeps every other active
\* record unchanged (clock - lastSeen = T_stale included), and counts the
\* records it removed.
C5_SweepExact ==
    [][(pc = "cleanup" /\ CleanupDue) =>
          /\ \A i \in ActiveIdx :
                IF Elapsed(clock, devices[i].lastSeen) > T_stale
                THEN /\ devices[i].mac \notin ActiveMacs'
                     /\ devices[i].mac \notin DOMAIN kalmanFilters'
                ELSE /\ \E j \in DOMAIN devices' : devices'[j] = devices[i]
                     /\ variant = "vector" =>
                           /\ devices[i].mac \in DOMAIN kalmanFilters'
                           /\ kalmanFilters'[devices[i].mac] = kalmanFilters[devices[i].mac]
          /\ ActiveMacs' \subseteq ActiveMacs
          /\ removedCount' =
                Cardinality({i \in ActiveIdx : Elapsed(clock, devices[i].lastSeen) > T_stale})
      ]_vars

\* a sweep is about to run over a stale record and a record exactly
\* T_stale old
C5_Witness ==
    /\ pc = "cleanup"
    /\ CleanupDue
    /\ \E i, j \in ActiveIdx :
          /\ Elapsed(clock, devices[i].lastSeen) > T_stale
          /\ Elapsed(clock, devices[j].lastSeen) = T_stale

\* C6: a record last updated at time t is active at every time up to and
\* including t + T_stale: whenever an active record stops being active, more
\* than T_stale has passed since its lastSeen.
C6_NoEarlyEviction ==
    [][\A i \in ActiveIdx :
          devices[i].mac \notin ActiveMacs' => Elapsed(clock, devices[i].lastSeen) > T_stale
      ]_vars

\* a sweep has just run at exactly lastSeen + T_stale and the record is
\* still active
C6_Witness ==
    /\ pc = "loop"
    /\ lastCleanup > 0
    /\ lastCleanup = (IF variant = "vector" THEN currentTime ELSE clock - DelayMs)
    /\ \E i \in ActiveIdx : Elapsed(clock - DelayMs, devices[i].lastSeen) = T_stale

\* the identifier has an active record that was last seen more than T_stale ago
ActiveStale(m) ==
    \E i \in ActiveIdx : devices[i].mac = m /\ Elapsed(clock, devices[i].lastSeen) > T_stale

\* the longest loop() iteration, and the time within which a sweep is due
MaxIterationMs == ScanMs + HttpTimeoutMs + DelayMs
EvictionHorizon == T_cleanup + MaxIterationMs

\* C7: while the loop keeps iterating, a record that is no longer observed
\* and has become older than T_stale is eventually evicted by a sweep,
\* whatever the scans return and however the reports end.
C7_EventuallyEvicted ==
    \A m \in ValidMacs :
        (ActiveStale(m) /\ clock <= MaxClockLive - EvictionHorizon) ~> ~ActiveStale(m)

\* a record is older than T_stale and still active, with time left to sweep it,
\* while another identifier is tracked and the last report failed
C7_Witness ==
    /\ ActiveStale("D1")
    /\ clock <= MaxClockLive - EvictionHorizon
    /\ "D2" \in ActiveMacs
    /\ report.status = "failed"

\* the record and the filter a first observation o at time now gives, from
\* the observation and a new filter alone
FreshFilter(o) == KalmanUpdate(NewKalmanFilter, o.rssi * Scale)

FreshRecord(o, now) ==
    IF variant = "vector"
    THEN [mac |-> o.mac,
          ssid |-> IF o.ssid = "" THEN HiddenNetwork ELSE o.ssid,
          hidden_ssid |-> (o.ssid = ""),
          rssi |-> o.rssi,
          rssi_filtered |-> FreshFilter(o).X,
          channel |-> o.channel,
          distance |-> calculateDistance(FreshFilter(o).X, o.channel),
          lastSeen |-> now, active |-> TRUE, packet_count |-> 1, timestamp |-> now]
    ELSE [mac |-> o.mac, rssi |-> o.rssi,
          distance |-> calculateDistanceArray(o.rssi),
          lastSeen |-> now, active |-> TRUE]

\* C8: after a record was evicted, the next valid observation of its
\* identifier creates one new record with sample count 1 whose fields and
\* filter come from that observation and a newly initialised filter alone.
C8_FreshAfterEviction ==
    [][(/\ NewIdentifierPending
        /\ Head(scanResults).mac \in removedLog
        /\ (variant = "array" => countActiveDevices < maxDevices))
       =>
       LET o == Head(scanResults)
       IN  /\ \E j \in DOMAIN devices' : devices'[j] = FreshRecord(o, clock)
           /\ Cardinality({j \in DOMAIN devices' :
                              devices'[j].active /\ devices'[j].mac = o.mac}) = 1
           /\ variant = "vector" =>
                 /\ o.mac \in DOMAIN kalmanFilters'
                 /\ kalmanFilters'[o.mac] = FreshFilter(o)
      ]_vars

\* an evicted identifier is tracked again by a record with sample count 1
C8_Witness ==
    /\ variant = "vector"
    /\ "D1" \in removedLog
    /\ \E i \in ActiveIdx :
          /\ devices[i].mac = "D1"
          /\ devices[i].packet_count = 1
          /\ devices[i].rssi = -50
          /\ kalmanFilters["D1"] = KalmanUpdate(NewKalmanFilter, -50 * Scale)

\* C9: the set of active identifiers changes only by an upsert that creates
\* a record (absent -> active) and by the sweep evicting stale records
\* (active -> evicted); a slot or record that becomes active is a newly
\* created record, never an evicted one switched on again.
C9_StatusTransitions ==
    [][/\ ActiveMacs' # ActiveMacs =>
             \/ /\ NewIdentifierPending
                /\ ActiveMacs' = ActiveMacs \cup {Head(scanResults).mac}
             \/ /\ pc = "cleanup"
                /\ CleanupDue
                /\ ActiveMacs' \subseteq ActiveMacs
                /\ \A i \in ActiveIdx :
                      devices[i].mac \notin ActiveMacs' => IsStale(devices[i], clock)
       /\ variant = "array" =>
             \A i \in DOMAIN devices :
                (~devices[i].active /\ devices'[i].active) =>
                    /\ NewIdentifierPending
                    /\ devices'[i] = FreshRecord(Head(scanResults), clock)
       /\ variant = "vector" => \A i \in DOMAIN devices' : devices'[i].active
      ]_vars

\* a new identifier is about to be rejected by a full registry that has
\* seen evictions before
C9_Witness ==
    /\ variant = "array"
    /\ removedLog # {}
    /\ countActiveDevices = maxDevices
    /\ NewIdentifierPending

\* C10: a record created by a first observation on channel 6 with raw
\* signal -60 stores the path-loss distance of that sample under {n = 2.3,
\* A = -45}: 10^(15/23), about 4.49 m (4483 in the fixed-point arithmetic).
C10_FirstSampleDistance ==
    variant = "vector" =>
        \A i \in ActiveIdx :
            (devices[i].packet_count = 1 /\ devices[i].channel = 6 /\ devices[i].rssi = -60)
                => devices[i].distance = calculateDistance(-60 * Scale, 6)


\* C11: the stored distance of every active record lies within
\* [minDist, maxDist] in every reachable state, and calculateDistance
\* returns a value in that range for every signal and channel it is given.
C11_DistanceInRange ==
    /\ \A i \in ActiveIdx : devices[i].distance \in minDist..maxDist
    /\ pc = "returned" => /\ est.d1 \in minDist..maxDist
                          /\ est.d2 \in minDist..maxDist

\* a record created from a very weak signal stores the upper limit
C11_Witness ==
    /\ variant = "array"
    /\ \E i \in ActiveIdx : devices[i].rssi = -100 /\ devices[i].distance = maxDistArray

\* C12: on one channel, for signals s1 <= s2, calculateDistance(s2) is not
\* larger than calculateDistance(s1).
C12_Monotonic ==
    (pc = "returned" /\ est.s1 <= est.s2) => est.d2 <= est.d1

\* a 5 GHz channel, one signal just below the reference strength and one at
\* it: the band correction applies to the first, the minimum to the second
C12_Witness ==
    /\ pc = "returned"
    /\ variant = "vector"
    /\ est.channel = 36
    /\ est.s1 = -40001
    /\ est.s2 = -40000
    /\ est.d2 = minDist
    /\ est.d1 > est.d2

Gap(x, m) == IF x >= m THEN x - m ELSE m - x

\* C13: every update with measurement m moves the estimate X toward m:
\* the gap |m - X| does not grow and X does not cross m, so repeating m
\* moves X monotonically toward m from whatever state the filter was in.
C13_MonotoneConvergence ==
    (pc = "kalman" /\ kf.n > 0) =>
        /\ Gap(kf.f.X, kf.m) <= Gap(kf.prev.X, kf.m)
        /\ kf.prev.X <= kf.m => kf.f.X <= kf.m
        /\ kf.prev.X >= kf.m => kf.f.X >= kf.m

\* after another measurement, the same measurement was given three times
\* and the estimate came closer to it without reaching it
C13_Witness ==
    /\ pc = "kalman"
    /\ kf.n = 4
    /\ kf.run = 3
    /\ Gap(kf.f.X, kf.m) < Gap(kf.prev.X, kf.m)
    /\ kf.f.X # kf.m

\* the active record of identifier m
Record(devs, m) == devs[CHOOSE i \in DOMAIN devs : devs[i].active /\ devs[i].mac = m]

\* C14: while a record lives, its hidden-label flag never goes from concrete
\* to hidden, and it goes from hidden to concrete only when the record holds
\* the placeholder and the observation being merged carries a concrete
\* label, which then replaces the placeholder; so it changes at most once.
C14_LabelRevealOnce ==
    [][variant = "vector" =>
          \A m \in ActiveMacs \cap ActiveMacs' :
              LET before == Record(devices, m)
                  after  == Record(devices', m)
              IN  /\ ~before.hidden_ssid => ~after.hidden_ssid
                  /\ (before.hidden_ssid /\ ~after.hidden_ssid) =>
                        /\ pc = "scanLoop"
                        /\ Head(scanResults).mac = m
                        /\ Head(scanResults).ssid # ""
                        /\ before.ssid = HiddenNetwork
                        /\ after.ssid = Head(scanResults).ssid
      ]_vars

\* a record updated once in this scan carries a concrete label, and the
\* next result of the scan reports its network as hidden
C14_Witness ==
    /\ variant = "vector"
    /\ pc = "scanLoop"
    /\ updatedDevices = 1
    /\ Head(scanResults).mac = "D1"
    /\ Head(scanResults).ssid = ""
    /\ "D1" \in ActiveMacs
    /\ Record(devices, "D1").ssid = "Net"
    /\ ~Record(devices, "D1").hidden_ssid
    /\ Record(devices, "D1").packet_count = 2

\* C15: a scan result whose identifier is empty or on the blocklist ourMacs
\* leaves the registry and the filter store as they are, and no active
\* record and no filter ever carries such an identifier.
C15_InvalidDropped ==
    [][/\ (/\ pc = "scanLoop"
           /\ (Head(scanResults).mac = "" \/ Head(scanResults).mac \in ourMacs))
          => (devices' = devices /\ kalmanFilters' = kalmanFilters)
       /\ \A i \in DOMAIN devices' :
             devices'[i].active => (devices'[i].mac # "" /\ devices'[i].mac \notin ourMacs)
       /\ \A m \in DOMAIN kalmanFilters' : m # "" /\ m \notin ourMacs
      ]_vars

\* a blocklisted identifier is the next scan result while the scan has
\* already created a record
C15_Witness ==
    /\ pc = "scanLoop"
    /\ Head(scanResults).mac \in ourMacs
    /\ newDevices = 1
    /\ ActiveIdx # {}

\* C16 as stated: in each iteration the scan+report step runs exactly when
\* the time since its last run, as loop() measures it, is >= T_scan, and the
\* sweep runs exactly when the time since its last run is >= T_cleanup.
C16_GuardsInclusive ==
    [][/\ pc = "loop" => (pc' = "scan" <=> Elapsed(clock, lastScan) >= T_scan)
       /\ pc = "cleanup" =>
             (lastCleanup' # lastCleanup <=> Elapsed(GuardTime, lastCleanup) >= T_cleanup)
      ]_vars

\* C16 as amended: the two steps run exactly when the measured time is
\* greater than the period; at a measured time equal to the period the
\* step does not run in that iteration.
C16_GuardsStrict ==
    [][/\ pc = "loop" => (pc' = "scan" <=> Elapsed(clock, lastScan) > T_scan)
       /\ pc = "cleanup" =>
             /\ lastCleanup' # lastCleanup <=> Elapsed(GuardTime, lastCleanup) > T_cleanup
             /\ lastCleanup' # lastCleanup =>
                   (devices' = Sweep.devices /\ lastCleanup' = GuardTime)
      ]_vars

\* the scan guard was evaluated exactly T_scan after lastScan and the
\* iteration went on to the cleanup guard without a scan
C16_Witness ==
    /\ pc = "cleanup"
    /\ Elapsed(currentTime, lastScan) = T_scan
    /\ clock = currentTime
    /\ report = NoReport

\* C17: building and sending a report, whatever its outcome, leaves every
\* record of the registry and every filter as it was.
C17_ReportReadOnly ==
    [][pc = "send" => (devices' = devices /\ kalmanFilters' = kalmanFilters)]_vars

\* a report of a non-empty registry has just timed out
C17_Witness ==
    /\ pc = "cleanup"
    /\ variant = "vector"
    /\ report.code = HttpReadTimeout
    /\ report.payload # <<>>
    /\ DOMAIN kalmanFilters # {}

\* C18: every report attempt that ends with a timeout or with a response
\* other than success (2xx) is logged as a failure.
C18_FailureLogged ==
    (report.status \in {"ok", "failed"} /\ report.code \notin 200..299)
        => report.status = "failed"

\* the identifiers of the entries of a report body
PayloadMacs(payload) == {payload[k].mac : k \in DOMAIN payload}

\* C19: the body of every report that is sent is built from the registry
\* as it is at that send, also after a failed report: it lists exactly the
\* identifiers active now, whatever the earlier body held.
C19_PayloadIsCurrent ==
    [][(pc = "send" /\ report'.status # "skipped") =>
          /\ report'.payload = Measurements(devices)
          /\ PayloadMacs(report'.payload) = ActiveMacs
      ]_vars

\* the last report failed, a record it listed has been evicted since, and
\* the next report is about to be built
C19_Witness ==
    /\ pc = "send"
    /\ report.status = "failed"
    /\ ActiveMacs # {}
    /\ \E m \in PayloadMacs(report.payload) : m \notin ActiveMacs

\* C20: when WiFi is not connected at report time nothing is sent and the
\* report step leaves registry and filters alone; the scan of the iteration
\* has run before it and a sweep that is due runs after it.
C20_SkippedWhenUnavailable ==
    [][/\ (pc = "send" /\ report'.status = "skipped") =>
             /\ report'.payload = <<>>
             /\ devices' = devices
             /\ kalmanFilters' = kalmanFilters
             /\ Elapsed(clock, currentTime) >= ScanMs
             /\ pc' = "cleanup"
       /\ (pc = "cleanup" /\ report.status = "skipped" /\ CleanupDue) =>
             /\ devices' = Sweep.devices
             /\ kalmanFilters' = Sweep.filters
             /\ lastCleanup' = GuardTime
      ]_vars

\* an iteration whose report was skipped has created a record in its scan
\* and evicted another in its sweep
C20_Witness ==
    /\ pc = "loop"
    /\ variant = "vector"
    /\ report.status = "skipped"
    /\ newDevices = 1
    /\ lastCleanup = currentTime
    /\ removedCount = 1

\* C21: a scan that returns no result leaves every record and every filter
\* as it was and goes straight on to the report: nothing is created,
\* updated or removed by it.
C21_EmptyScanChangesNothing ==
    [][(pc = "scan" /\ scanResults' = <<>>) =>
          /\ devices' = devices
          /\ kalmanFilters' = kalmanFilters
          /\ removedLog' = removedLog
          /\ pc' = "send"
      ]_vars

\* a scan of this iteration has returned nothing while a record is tracked
C21_Witness ==
    /\ pc = "send"
    /\ Elapsed(clock, currentTime) = ScanMs
    /\ newDevices = 0
    /\ updatedDevices = 0
    /\ ActiveIdx # {}

\* one of the outcomes that is not a success has just happened or is about
\* to: a report skipped, timed out or answered with an error, a scan result
\* about to be dropped or to be turned away by the full array, a scan that
\* merged nothing
ErrorOutcome ==
    \/ /\ pc = "cleanup"
       /\ (report.status \in {"skipped", "failed"} \/ report.code = HttpServerError)
    \/ /\ pc = "scanLoop"
       /\ Dropped(Head(scanResults).mac)
    \/ /\ pc = "scanLoop"
       /\ variant = "array"
       /\ NewIdentifierPending
       /\ countActiveDevices = maxDevices
    \/ /\ pc = "send"
       /\ newDevices = 0
       /\ updatedDevices = 0

\* time within which the next scan starts: the rest of the iteration and
\* the wait until more than T_scan has passed
ScanHorizon == MaxIterationMs + T_scan + DelayMs

\* C22: after each outcome that is not a success the loop goes on and a
\* later scan starts (as long as the modelled run has time left for it).
C22_NodeKeepsScanning ==
    (ErrorOutcome /\ clock <= MaxClockErr - ScanHorizon) ~> (pc = "scan")

\* after a failed report the full array is about to turn away an identifier
C22_Witness ==
    /\ variant = "array"
    /\ pc = "scanLoop"
    /\ NewIdentifierPending
    /\ countActiveDevices = maxDevices
    /\ report.status = "failed"
    /\ clock <= MaxClockErr - ScanHorizon

\* C23: merging a scan result whose identifier has an active record sets
\* that record's raw signal, filtered signal, distance and lastSeen from the
\* result, adds exactly 1 to its packet count, and leaves every other
\* record as it was.
C23_UpdateInPlace ==
    [][(/\ pc = "scanLoop"
        /\ ~Dropped(Head(scanResults).mac)
        /\ Head(scanResults).mac \in ActiveMacs)
       =>
       LET o == Head(scanResults)
           i == CHOOSE k \in ActiveIdx : devices[k].mac = o.mac
       IN  /\ DOMAIN devices' = DOMAIN devices
           /\ \A j \in DOMAIN devices \ {i} : devices'[j] = devices[j]
           /\ devices'[i].active
           /\ devices'[i].mac = o.mac
           /\ devices'[i].rssi = o.rssi
           /\ devices'[i].lastSeen = clock
           /\ IF variant = "vector"
              THEN LET x == KalmanUpdate(kalmanFilters[o.mac], o.rssi * Scale).X
                   IN  /\ devices'[i].rssi_filtered = x
                       /\ devices'[i].distance = calculateDistance(x, o.channel)
                       /\ devices'[i].packet_count = devices[i].packet_count + 1
              ELSE devices'[i].distance = calculateDistanceArray(o.rssi)
      ]_vars

\* of two records created in one scan, the first has been updated by a
\* later scan with another signal and the second has not
C23_Witness ==
    /\ variant = "vector"
    /\ Len(devices) = 2
    /\ devices[1].packet_count = 2
    /\ devices[1].rssi = -50
    /\ devices[1].rssi_filtered # devices[1].rssi * Scale
    /\ devices[2].packet_count = 1
    /\ devices[2].lastSeen < devices[1].lastSeen

\* C24: a report that is sent has as many entries as there are active
\* records; the k-th entry is the k-th active record in registry order and
\* carries that record's fields as they are at send time (the filtered
\* signal printed to one decimal, the distance to two).
C24_ReportIsSnapshot ==
    [][(pc = "send" /\ report'.status # "skipped") =>
          LET p == report'.payload
          IN  /\ Len(p) = Cardinality(ActiveIdx)
              /\ \A i \in ActiveIdx :
                    LET k == Cardinality({j \in ActiveIdx : j <= i})
                        d == devices[i]
                    IN  /\ p[k].mac = d.mac
                        /\ p[k].rssi = d.rssi
                        /\ p[k].distance = RoundDiv(d.distance, 10)
                        /\ variant = "vector" =>
                              /\ p[k].ssid = d.ssid
                              /\ p[k].hidden_ssid = d.hidden_ssid
                              /\ p[k].rssi_filtered = RoundDiv(d.rssi_filtered, 100)
                              /\ p[k].channel = d.channel
                              /\ p[k].packet_count = d.packet_count
                              /\ p[k].device_timestamp = d.timestamp
      ]_vars

\* a report sent from an array whose first used slot was evicted and whose
\* later slot is active holds the later record alone
C24_Witness ==
    /\ pc = "cleanup"
    /\ variant = "array"
    /\ report.status = "ok"
    /\ Len(report.payload) = 1
    /\ \E i, j \in DOMAIN devices :
          /\ i < j
          /\ ~devices[i].active
          /\ devices[i].mac # ""
          /\ devices[j].active
          /\ report.payload[1].mac = devices[j].mac

\* C25: whenever fewer than maxDevices records are active (in particular
\* after a sweep has evicted records from a full registry), a valid scan
\* result whose identifier has no active record is accepted: the merge
\* creates an active record for it and counts it as new.
C25_FullIsRecoverable ==
    [][(NewIdentifierPending /\ countActiveDevices < maxDevices) =>
          /\ \E i \in DOMAIN devices' :
                /\ devices'[i].active
                /\ devices'[i].mac = Head(scanResults).mac
                /\ devices'[i].lastSeen = clock
          /\ Cardinality({i \in DOMAIN devices' : devices'[i].active})
                = countActiveDevices + 1
          /\ newDevices' = newDevices + 1
      ]_vars

\* every slot of the array has held a record, a sweep has evicted all but
\* one of them, and the scan after it has updated the survivor and created
\* one record in a freed slot
C25_Witness ==
    /\ variant = "array"
    /\ \A i \in 1..maxDevices : devices[i].mac # ""
    /\ newDevices = 1
    /\ updatedDevices = 1
    /\ countActiveDevices = 2
    /\ removedLog # {}

\* C26: the sweep is not postponed by an uplink call: at no time at which
\* an uplink call is still waiting for its response or its timeout has more
\* than T_cleanup elapsed since the last sweep.
C26_SweepNotPostponed ==
    [][(pc = "send" /\ clock' > clock) =>
          Elapsed(clock' - 1, lastCleanup) <= T_cleanup
      ]_vars

\* C27: the report and the sweep start only when every result of the scan
\* has been merged, and while results are being merged no report is built
\* and no sweep runs; the report and the sweep do not run inside one
\* another either.
C27_StepsRunToCompletion ==
    [][/\ pc \in {"send", "cleanup"} => scanResults = <<>>
       /\ pc = "scanLoop" =>
             /\ report' = report
             /\ lastScan' = lastScan
             /\ lastCleanup' = lastCleanup
             /\ removedCount' = removedCount
             /\ removedLog' = removedLog
             /\ pc' = (IF Len(scanResults) = 1 THEN "send" ELSE "scanLoop")
       /\ pc = "send" =>
             /\ pc' = "cleanup"
             /\ lastCleanup' = lastCleanup
             /\ removedLog' = removedLog
       /\ pc = "cleanup" =>
             /\ pc' = "loop"
             /\ report' = report
      ]_vars

\* one of two results of a scan has been merged, the other is pending, and
\* more than T_cleanup has elapsed since the last sweep
C27_Witness ==
    /\ pc = "scanLoop"
    /\ Len(scanResults) = 1
    /\ newDevices + updatedDevices = 1
    /\ ActiveIdx # {}
    /\ Elapsed(clock, lastCleanup) > T_cleanup

\* C28: the distance returned for a channel is the one computed with the
\* table entry whose channel is equal to it, and with n = 2.5, A = -45 when
\* the table has no such entry.
C28_ExactChannelEntry ==
    pc = "returned" =>
        LET hits == {i \in DOMAIN channelCalibrations :
                        channelCalibrations[i].channel = est.channel}
            n10  == IF hits = {} THEN 25
                    ELSE channelCalibrations[CHOOSE i \in hits : TRUE].n10
            A    == IF hits = {} THEN -45
                    ELSE channelCalibrations[CHOOSE i \in hits : TRUE].A
            raw(s)  == Pow10((A * Scale - s) \div n10)
            band(s) == IF est.channel > 14 THEN (raw(s) * 9) \div 10 ELSE raw(s)
            expected(s) == IF s >= A * Scale THEN minDist
                           ELSE IF band(s) > maxDist THEN maxDist
                           ELSE IF band(s) < minDist THEN minDist
                           ELSE band(s)
        IN  /\ Cardinality(hits) <= 1
            /\ est.d1 = expected(est.s1)
            /\ est.d2 = expected(est.s2)

\* channel 3 lies between the listed channels 1 and 6: -60 dBm gives the
\* distance of the default pair, which neither neighbour's entry gives
C28_Witness ==
    /\ pc = "returned"
    /\ variant = "vector"
    /\ est.channel = 3
    /\ est.s1 = -60 * Scale
    /\ est.d1 = Pow10((15 * Scale) \div 25)
    /\ est.d1 # Pow10((15 * Scale) \div 22)
    /\ est.d1 # Pow10((15 * Scale) \div 23)

\* C29: a smoothed signal at or above the reference strength A of the
\* channel's calibration gives exactly minDist, on every channel.
C29_AtReferenceIsMinDist ==
    pc = "returned" =>
        LET A == IF variant = "vector" THEN Calibration(est.channel).A
                 ELSE DefaultCalibration.A
        IN  /\ est.s1 >= A * Scale => est.d1 = minDist
            /\ est.s2 >= A * Scale => est.d2 = minDist

\* on a 5 GHz channel a signal equal to A = -40 and a signal of 0 dBm both
\* give minDist
C29_Witness ==
    /\ pc = "returned"
    /\ variant = "vector"
    /\ est.channel = 44
    /\ est.s1 = -40 * Scale
    /\ est.s2 = 0
    /\ est.d1 = minDist
    /\ est.d2 = minDist

\* C30: in every state, the distance stored in an active record is the
\* estimator's result for the filtered signal and the channel stored in the
\* same record.
C30_DistanceMatchesStored ==
    \A i \in ActiveIdx :
        devices[i].distance =
            IF variant = "vector"
            THEN calculateDistance(devices[i].rssi_filtered, devices[i].channel)
            ELSE calculateDistanceArray(devices[i].rssi)

\* C33: while a record lives, a concrete label stays as it is: no step
\* changes the label of a record whose hidden-label flag is off, whatever
\* label the observation being merged carries.
C33_ConcreteLabelStays ==
    [][variant = "vector" =>
          \A m \in ActiveMacs \cap ActiveMacs' :
              LET before == Record(devices, m)
                  after  == Record(devices', m)
              IN  ~before.hidden_ssid => after.ssid = before.ssid
      ]_vars

\* a record that was revealed as "Net" by the first result of this scan is
\* about to be updated with the concrete label "Lab"
C33_Witness ==
    /\ variant = "vector"
    /\ pc = "scanLoop"
    /\ updatedDevices = 1
    /\ Head(scanResults).mac = "D1"
    /\ Head(scanResults).ssid = "Lab"
    /\ "D1" \in ActiveMacs
    /\ Record(devices, "D1").ssid = "Net"
    /\ ~Record(devices, "D1").hidden_ssid
    /\ Record(devices, "D1").packet_count = 2

\* C34: a record is created with sample count 1, every accepted result for
\* its identifier adds exactly 1 to it, no other step changes it, and so it
\* is at least 1 in every state and counts the results accepted since the
\* record was created.
C34_SampleCount ==
    [][variant = "vector" =>
          LET accepted(m) == /\ pc = "scanLoop"
                             /\ ~Dropped(Head(scanResults).mac)
                             /\ Head(scanResults).mac = m
          IN  /\ \A i \in ActiveIdx : devices[i].packet_count >= 1
              /\ \A m \in ActiveMacs' \ ActiveMacs :
                    /\ accepted(m)
                    /\ Record(devices', m).packet_count = 1
              /\ \A m \in ActiveMacs \cap ActiveMacs' :
                    Record(devices', m).packet_count =
                        Record(devices, m).packet_count + (IF accepted(m) THEN 1 ELSE 0)
      ]_vars

\* a record that was evicted after one result and created again counts the
\* two results accepted since its second creation
C34_Witness ==
    /\ variant = "vector"
    /\ "D1" \in removedLog
    /\ "D1" \in ActiveMacs
    /\ Record(devices, "D1").packet_count = 2
    /\ obsLeft = 0

\* C35: in the vector variant every stored record is active, so the size of
\* the collection is the number of active records, and a report that is
\* sent has as many entries as the collection has records.
C35_VectorAllActive ==
    [][variant = "vector" =>
          /\ \A i \in DOMAIN devices : devices[i].active
          /\ Len(devices) = countActiveDevices
          /\ (pc = "send" /\ report'.status # "skipped") =>
                Len(report'.payload) = Len(devices)
      ]_vars

\* a sweep has erased all records but one, and the report sent after the
\* next scan has one entry
C35_Witness ==
    /\ variant = "vector"
    /\ pc = "cleanup"
    /\ removedLog # {}
    /\ Len(devices) = 1
    /\ report.status = "ok"
    /\ Len(report.payload) = 1
    /\ devices[1].mac \notin removedLog

\* C36: merging a scan result that is not dropped adds 1 to the "new"
\* counter exactly when it creates a record and 1 to the "updated" counter
\* exactly when its identifier has an active record; a result that does
\* neither, because the registry is full, changes neither counter.
C36_CountedOnce ==
    [][(pc = "scanLoop" /\ ~Dropped(Head(scanResults).mac)) =>
          LET m       == Head(scanResults).mac
              updated == m \in ActiveMacs
              created == /\ ~updated
                         /\ \E i \in DOMAIN devices' :
                               devices'[i].active /\ devices'[i].mac = m
          IN  /\ newDevices' = newDevices + (IF created THEN 1 ELSE 0)
              /\ updatedDevices' = updatedDevices + (IF updated THEN 1 ELSE 0)
      ]_vars

\* C32: a report is built only by the step that follows the scan of the
\* same iteration (the scan took its time since the iteration began), the
\* sweep guard is evaluated only after that report or in an iteration
\* without a scan, and a scan starts only at the top of an iteration.
C32_FixedOrder ==
    [][/\ pc' = "scan" => pc = "loop"
       /\ pc' = "scanLoop" => pc \in {"scan", "scanLoop"}
       /\ pc' = "send" =>
             /\ pc \in {"scan", "scanLoop"}
             /\ Elapsed(clock', currentTime') = ScanMs
       /\ (report' # report \/ lastScan' # lastScan) => pc = "send"
       /\ pc' = "cleanup" =>
             \/ pc = "send"
             \/ pc = "loop" /\ ~(Elapsed(clock, lastScan) > T_scan)
       /\ (lastCleanup' # lastCleanup \/ removedLog' # removedLog) => pc = "cleanup"
      ]_vars

\* the iteration that began at currentTime has scanned, sent its report
\* and then run a sweep that evicted a record
C32_Witness ==
    /\ variant = "vector"
    /\ pc = "loop"
    /\ currentTime > 0
    /\ lastScan = currentTime
    /\ lastCleanup = currentTime
    /\ report.status = "ok"
    /\ removedCount > 0

\* C31: in a run that crosses the wrap of millis() (times are counted from
\* the wrap, negative before it), a scan starts exactly when more than
\* T_scan of real time has passed since lastScan, a sweep runs exactly
\* when more than T_cleanup has passed since lastCleanup, and a sweep
\* evicts exactly the records last seen more than T_stale ago; every
\* difference the code forms is the real elapsed time.
C31_ElapsedAcrossWrap ==
    [][/\ pc = "loop" =>
             /\ clock - lastScan >= 0
             /\ pc' = "scan" <=> clock - lastScan > T_scan
       /\ pc = "cleanup" =>
             /\ GuardTime - lastCleanup >= 0
             /\ lastCleanup' # lastCleanup <=> GuardTime - lastCleanup > T_cleanup
             /\ \A i \in ActiveIdx :
                   /\ clock - devices[i].lastSeen >= 0
                   /\ devices[i].mac \notin ActiveMacs' <=>
                         /\ GuardTime - lastCleanup > T_cleanup
                         /\ clock - devices[i].lastSeen > T_stale
       /\ pc # "cleanup" => \A i \in ActiveIdx : devices[i].mac \in ActiveMacs'
      ]_vars

\* a record last seen before the wrap was evicted by a sweep that ran
\* after the wrap, and it was not evicted by the sweep before it
C31_Witness ==
    /\ variant = "array"
    /\ clock >= 0
    /\ lastCleanup >= 0
    /\ \E i \in 1..maxDevices :
          /\ devices[i].mac = "D1"
          /\ ~devices[i].active
          /\ devices[i].lastSeen < 0
          /\ lastCleanup - devices[i].lastSeen > T_stale
          /\ lastCleanup - devices[i].lastSeen < T_stale + T_cleanup

\* C37: while the access-control list is enabled, every device drawn on the
\* map and every device in the list has an identifier that is in
\* allowed_macs (letter case aside), and the device counter shows the
\* number of known devices that are in allowed_macs.
C37_AclHidesOthers ==
    (pc = "page" /\ app.aclConfig.enabled) =>
        LET listed(id) == \E mac \in app.aclConfig.allowed_macs :
                             toUpperCase(mac) = toUpperCase(id)
        IN  /\ \A id \in app.map : listed(id)
            /\ \A id \in app.list : listed(id)
            /\ app.count = Cardinality({id \in app.devices : listed(id)})

===========================================================================
